---------------------------- MODULE Spec2Model ----------------------------
(***************************************************************************)
(* Model of the conversion request pipeline of reformatit-backend          *)
(* (src/main.py): the /convert, /convert-document and /test handlers, the  *)
(* slowapi limiter attached to two of them, the temp_images and            *)
(* temp_documents directories, and the periodic_cleanup coroutine, all     *)
(* running on one asyncio event loop.                                      *)
(*                                                                         *)
(* Python strings are modelled as sequences of one-character strings, so   *)
(* that upper(), lower(), splitext(), join() and strftime() are computed   *)
(* as the interpreter computes them.                                       *)
(***************************************************************************)
EXTENDS Integers, Sequences, FiniteSets, TLC

(***************************************************************************)
(* Bounds of the model (not program constants).                            *)
(***************************************************************************)
NSlots == 2
MaxTicks == 2
MaxRequests == 2
MaxExternal == 1

(***************************************************************************)
(* Program constants.                                                      *)
(***************************************************************************)
MAX_FILE_SIZE == 10 * 1024 * 1024
MAX_DOC_FILE_SIZE == 10 * 1024 * 1024
DELETE_IMG_AFTER_SECONDS == 3600
TIMEOUT_IMG == 10
TEMP_IMAGE_DIR == <<"t","e","m","p","_","i","m","a","g","e","s">>
TEMP_DOC_DIR == <<"t","e","m","p","_","d","o","c","u","m","e","n","t","s">>
output_dir == <<"t","e","m","p","_","i","m","a","g","e","s","/">>

ALLOWED_FORMATS ==
  { <<"B","M","P">>, <<"G","I","F">>, <<"H","E","I","F">>, <<"I","C","O">>,
    <<"J","P","E","G">>, <<"J","P","G">>, <<"P","C","X">>, <<"P","N","G">>,
    <<"P","P","M">>, <<"S","G","I">>, <<"W","E","B","P">>, <<"T","I","F">>,
    <<"T","I","F","F">> }

ALLOWED_DOC_FORMATS ==
  { <<"P","D","F">>, <<"D","O","C","X">>, <<"O","D","T">>, <<"T","X","T">>,
    <<"R","T","F">> }

\* The quota and the window of each @limiter.limit decorator.  The decorator
\* of /convert is commented out in the source: its quota is the one written
\* in that comment, and the handler runs without a limiter.
TestQuota == 10
DocQuota == 5
ConvertQuota == 5
WindowSeconds == 60

(***************************************************************************)
(* Python string functions.                                                *)
(***************************************************************************)
LowerLetters ==
  <<"a","b","c","d","e","f","g","h","i","j","k","l","m",
    "n","o","p","q","r","s","t","u","v","w","x","y","z">>
UpperLetters ==
  <<"A","B","C","D","E","F","G","H","I","J","K","L","M",
    "N","O","P","Q","R","S","T","U","V","W","X","Y","Z">>

UpperChar(c) ==
  IF \E k \in 1..26 : LowerLetters[k] = c
    THEN UpperLetters[CHOOSE k \in 1..26 : LowerLetters[k] = c]
    ELSE c

LowerChar(c) ==
  IF \E k \in 1..26 : UpperLetters[k] = c
    THEN LowerLetters[CHOOSE k \in 1..26 : UpperLetters[k] = c]
    ELSE c

\* str.upper()
upper(s) == [i \in 1..Len(s) |-> UpperChar(s[i])]

\* str.lower()
lower(s) == [i \in 1..Len(s) |-> LowerChar(s[i])]

\* str.rfind(c), 1-based, 0 when absent
rfind(s, c) ==
  IF \E i \in 1..Len(s) : s[i] = c
    THEN CHOOSE i \in 1..Len(s) : s[i] = c /\ \A j \in (i+1)..Len(s) : s[j] # c
    ELSE 0

\* os.path.splitext(p): the extension starts at the last dot after the last
\* separator, unless only dots precede it in the file name.
splitext(p) ==
  LET sepIndex == rfind(p, "/")
      dotIndex == rfind(p, ".")
  IN IF dotIndex > sepIndex /\ \E i \in (sepIndex+1)..(dotIndex-1) : p[i] # "."
       THEN <<SubSeq(p, 1, dotIndex - 1), SubSeq(p, dotIndex, Len(p))>>
       ELSE <<p, <<>>>>

\* os.path.join(a, b)
join(a, b) ==
  IF Len(b) > 0 /\ b[1] = "/" THEN b
  ELSE IF Len(a) = 0 \/ a[Len(a)] = "/" THEN a \o b
  ELSE a \o <<"/">> \o b

Digits == <<"0","1","2","3","4","5","6","7","8","9">>
Pad2(n) == <<Digits[((n \div 10) % 10) + 1], Digits[(n % 10) + 1]>>
Pad4(n) == Pad2(n \div 100) \o Pad2(n % 100)

\* The local date <<day, month, year>> at the moment the model's clock
\* reads 0 (local midnight).
StartDate == <<26, 6, 2024>>

\* datetime.datetime.now().strftime("%S%M%H%d%m%Y") at model time t (seconds).
\* The model's horizon stays within the start day's month.
strftime(t) ==
  Pad2(t % 60) \o Pad2((t \div 60) % 60) \o Pad2((t \div 3600) % 24)
    \o Pad2(StartDate[1] + (t \div 86400)) \o Pad2(StartDate[2])
    \o Pad4(StartDate[3])

(***************************************************************************)
(* Inputs of the model: what a client may send.                            *)
(***************************************************************************)
Slots == 1..NSlots
Clients == {"10.0.0.1"}
Endpoints == {"convert", "document"}

FileNames ==
  { <<"a",".","d","o","c","x">>, <<"a",".","t","x","t">> }

Tokens ==
  { <<"p","n","g">>, <<"H","E","I","F">>, <<"T","x","t">>, <<"P","D","F">>,
    <<"E","X","E">>, <<"P","N">> }

Sizes == { MAX_FILE_SIZE, MAX_FILE_SIZE + 1, 2 * MAX_FILE_SIZE }

\* Seconds by which the clock may advance in one step.
TickSteps == { TIMEOUT_IMG + 1, DELETE_IMG_AFTER_SECONDS }

\* What the external codec or document library does with one conversion:
\* it writes a non-empty output, writes a zero-byte output, or raises before
\* the output file is created.
Outcomes == { "ok", "empty", "raise" }

\* What the host does to a file during one cleanup iteration: nothing, or
\* another process removes it between two system calls, or the operating
\* system refuses the os.remove.
Fates == { "none", "gone_before_isfile", "gone_before_getctime",
           "gone_before_remove", "remove_denied" }

(***************************************************************************)
(* State.                                                                  *)
(***************************************************************************)
VARIABLES
  now,        \* the wall clock, in seconds
  nticks,     \* number of clock steps taken (bounds the run)
  req,        \* req[s]: the request handled in slot s
  fs,         \* the file system: path -> [ctime, size, kind]
  limiter,    \* limiter[e][c]: slowapi's fixed-window counter
  burst,      \* burst[e][c]: requests admitted at the current instant
  testResp,   \* status of the last /test response, 0 before the first
  running,    \* the coroutine that holds the event loop (Free if none does)
  cleanup,    \* the periodic_cleanup task
  external,   \* number of times the host has interfered with the cleanup
  budget      \* number of requests the clients will still send

vars == <<now, nticks, req, fs, limiter, burst, testResp, running, cleanup,
          external, budget>>

\* Values of running: no coroutine is executing, the conversion coroutine of
\* slot s is executing, periodic_cleanup is executing its scan.
Free == [task |-> "none", slot |-> 0]
Holder(s) == [task |-> "request", slot |-> s]
Cleaner == [task |-> "cleanup", slot |-> 0]

IdleReq ==
  [ pc |-> "idle", endpoint |-> "none", client |-> "none", filename |-> <<>>,
    convert_to |-> <<>>, size |-> 0, status |-> 0, out |-> <<>>,
    stamp |-> <<>>, hangs |-> FALSE, elapsed |-> 0, wrote |-> FALSE ]

Quota(e) ==
  CASE e = "test" -> TestQuota
    [] e = "document" -> DocQuota
    [] e = "convert" -> ConvertQuota

\* The endpoints that carry an active @limiter.limit decorator.
Limited == { "test", "document" }

Init ==
  /\ now = 0
  /\ nticks = 0
  /\ req = [s \in Slots |-> IdleReq]
  /\ fs = << >>
  /\ limiter = [e \in Limited |-> [c \in Clients |-> [count |-> 0, expiry |-> 0]]]
  /\ burst = [e \in Endpoints \cup {"test"} |-> [c \in Clients |-> 0]]
  /\ testResp = 0
  /\ running = Free
  /\ cleanup = [ pc |-> "sleeping", wakeAt |-> 0, scanNow |-> 0,
                 pending |-> {}, failed |-> {}, deleted |-> {} ]
  /\ external = 0
  /\ budget = MaxRequests

(***************************************************************************)
(* Helpers on the file system.                                             *)
(***************************************************************************)
Exists(f, p) == p \in DOMAIN f

\* open(p, "wb").write(...), Image.save(p), Document.save(p): the file at p
\* is created or replaced, and its inode change time becomes the current time.
WriteFile(f, p, sz, k) ==
  [q \in (DOMAIN f) \cup {p} |->
     IF q = p THEN [ctime |-> now, size |-> sz, kind |-> k] ELSE f[q]]

\* os.remove(p)
RemoveFile(f, p) == [q \in (DOMAIN f) \ {p} |-> f[q]]

\* os.listdir(d): the names of the entries directly under d
listdir(f, d) ==
  { SubSeq(p, Len(d) + 2, Len(p)) :
      p \in { q \in DOMAIN f :
                /\ Len(q) > Len(d) + 1
                /\ SubSeq(q, 1, Len(d)) = d
                /\ q[Len(d) + 1] = "/"
                /\ \A i \in (Len(d) + 2)..Len(q) : q[i] # "/" } }

(***************************************************************************)
(* The slowapi limiter (fixed window, in-memory storage).                  *)
(***************************************************************************)
\* The counter of a key whose window has expired is dropped on access.
LimiterGet(e, c) ==
  IF limiter[e][c].count > 0 /\ limiter[e][c].expiry <= now
    THEN [count |-> 0, expiry |-> 0]
    ELSE limiter[e][c]

\* A hit is allowed while the counter, this hit included, is within the quota.
LimiterAllows(e, c) == LimiterGet(e, c).count + 1 <= Quota(e)

\* Every hit increments the counter; the first hit of a window sets its
\* expiry.  The counter saturates one above the quota: further hits are
\* rejected alike.
LimiterHit(e, c) ==
  LET cur == LimiterGet(e, c)
  IN [limiter EXCEPT ![e][c] =
        [ count |-> IF cur.count > Quota(e) THEN cur.count ELSE cur.count + 1,
          expiry |-> IF cur.count = 0 THEN now + WindowSeconds ELSE cur.expiry ]]

\* Whether the decorators of endpoint e let a request of client c through.
Admits(e, c) == IF e \in Limited THEN LimiterAllows(e, c) ELSE TRUE

BurstHit(e, c) ==
  [burst EXCEPT ![e][c] = IF @ > Quota(e) THEN @ ELSE @ + 1]

(***************************************************************************)
(* Request admission and validation.                                       *)
(***************************************************************************)
\* Variant of TooLarge: the comparison is >= instead of >.
TooLarge_AtLimit(e, size) ==
  IF e = "convert" THEN size >= MAX_FILE_SIZE ELSE size >= MAX_DOC_FILE_SIZE

\* len(contents) > MAX_FILE_SIZE, len(contents) > MAX_DOC_FILE_SIZE
TooLarge(e, size) ==
  IF e = "convert" THEN size > MAX_FILE_SIZE ELSE size > MAX_DOC_FILE_SIZE

\* Variant of InvalidFormat: the token is looked up without .upper().
InvalidFormat_CaseSensitive(e, tok) ==
  IF e = "convert" THEN tok \notin ALLOWED_FORMATS
                   ELSE tok \notin ALLOWED_DOC_FORMATS

\* convert_to.upper() not in ALLOWED_FORMATS / ALLOWED_DOC_FORMATS
InvalidFormat(e, tok) ==
  IF e = "convert" THEN upper(tok) \notin ALLOWED_FORMATS
                   ELSE upper(tok) \notin ALLOWED_DOC_FORMATS

\* GET|POST /test/: the limiter, then a fixed JSON body.
Test(c) ==
  /\ running = Free
  /\ budget > 0
  /\ budget' = budget - 1
  /\ testResp' = IF Admits("test", c) THEN 200 ELSE 429
  /\ limiter' = LimiterHit("test", c)
  /\ burst' = IF Admits("test", c) THEN BurstHit("test", c) ELSE burst
  /\ UNCHANGED <<now, nticks, req, fs, running, cleanup, external>>

\* A request reaches /convert/ or /convert-document/: the limiter decorator
\* of the endpoint runs, then the handler starts and awaits file.read().
\* The fields of the multipart form enter the state when the handler first
\* reads them: the payload and the token in Validate, the declared filename
\* in ConvertBegin.
Arrive(s, e, c) ==
  /\ running = Free
  /\ req[s].pc = "idle"
  /\ budget > 0
  /\ budget' = budget - 1
  /\ req' = [req EXCEPT ![s] =
       [IdleReq EXCEPT !.pc = IF Admits(e, c) THEN "reading" ELSE "done",
                       !.status = IF Admits(e, c) THEN 0 ELSE 429,
                       !.endpoint = e, !.client = c]]
  /\ limiter' = IF e \in Limited THEN LimiterHit(e, c) ELSE limiter
  /\ burst' = IF Admits(e, c) THEN BurstHit(e, c) ELSE burst
  /\ UNCHANGED <<now, nticks, fs, testResp, running, cleanup, external>>

\* file.read() has returned: the size check, then the format check, run
\* without suspending.  HTTPException is not asyncio.TimeoutError, so the
\* enclosing except clause lets 413 and 400 through.
Validate(s, sz, tok) ==
  /\ running = Free
  /\ req[s].pc = "reading"
  /\ req' = [req EXCEPT ![s] =
       IF TooLarge(@.endpoint, sz)
         THEN [@ EXCEPT !.pc = "done", !.status = 413,
                        !.size = sz, !.convert_to = tok]
       ELSE IF InvalidFormat(@.endpoint, tok)
         THEN [@ EXCEPT !.pc = "done", !.status = 400,
                        !.size = sz, !.convert_to = tok]
       ELSE [@ EXCEPT !.pc = "dispatch", !.size = sz, !.convert_to = tok]]
  /\ UNCHANGED <<now, nticks, fs, limiter, burst, testResp, running, cleanup,
                 external, budget>>

\* The response has been sent; the slot serves the next request.
Recycle(s) ==
  /\ running = Free
  /\ req[s].pc = "done"
  /\ req' = [req EXCEPT ![s] = IdleReq]
  /\ UNCHANGED <<now, nticks, fs, limiter, burst, testResp, running, cleanup,
                 external, budget>>

\* The wall clock advances, whatever the event loop is doing.
Tick(d) ==
  /\ nticks < MaxTicks
  /\ nticks' = nticks + 1
  /\ now' = now + d
  /\ burst' = [e \in DOMAIN burst |-> [c \in Clients |-> 0]]
  /\ req' = [s \in Slots |->
       IF req[s].pc = "converting"
         THEN [req[s] EXCEPT !.elapsed = @ + d]
         ELSE req[s]]
  /\ UNCHANGED <<fs, limiter, testResp, running, cleanup, external, budget>>

(***************************************************************************)
(* Converter dispatch.                                                     *)
(***************************************************************************)
HEIF == <<"H","E","I","F">>
JPG == <<"J","P","G">>
JPEG == <<"J","P","E","G">>
TIF == <<"T","I","F">>
TIFF == <<"T","I","F","F">>
PDF == <<"P","D","F">>
DOCX == <<"D","O","C","X">>
ODT == <<"O","D","T">>
TXT == <<"T","X","T">>
RTF == <<"R","T","F">>

\* Variant of convert_img_to_corrected: the aliases are not resolved.
convert_img_to_corrected_NoAlias(tok) == upper(tok)

\* {"JPG": "JPEG", "TIF": "TIFF"}.get(convert_img_to.upper(), convert_img_to.upper())
convert_img_to_corrected(tok) ==
  IF upper(tok) = JPG THEN JPEG
  ELSE IF upper(tok) = TIF THEN TIFF
  ELSE upper(tok)

\* The output path of get_output_path for a timestamp taken at time t.
ImageOutPath(fn, tok, t) ==
  LET base_name == splitext(fn)[1]
      ext == IF upper(tok) = HEIF THEN <<"h","e","i","f">>
                                  ELSE lower(convert_img_to_corrected(tok))
  IN join(output_dir, base_name \o <<"_">> \o strftime(t) \o <<".">> \o ext)

\* The output path of convert_doc for the timestamp string stamp.
DocOutPath(fn, tok, stamp) ==
  join(TEMP_DOC_DIR,
       splitext(fn)[1] \o <<"_">> \o stamp \o <<".">> \o lower(tok))

\* temp_docx of the ODT to PDF route
TempDocx(stamp) ==
  join(TEMP_DOC_DIR, <<"t","e","m","p","_">> \o stamp \o <<".","d","o","c","x">>)

\* os.path.splitext(file.filename)[1][1:].upper()
InputFormat(fn) ==
  LET ext == splitext(fn)[2]
  IN upper(SubSeq(ext, 2, Len(ext)))

\* The branch of the if/elif chain of convert_doc taken for an input format
\* and a target token.
Route(input_format, tok) ==
  IF input_format = DOCX /\ upper(tok) = PDF THEN "docx_pdf"
  ELSE IF input_format = PDF /\ upper(tok) = DOCX THEN "pdf_docx"
  ELSE IF input_format = ODT /\ upper(tok) \in {DOCX, PDF, TXT} THEN
    IF upper(tok) = DOCX THEN "odt_docx"
    ELSE IF upper(tok) = PDF THEN "odt_pdf"
    ELSE "odt_txt"
  ELSE IF upper(tok) = TXT THEN
    IF input_format = PDF THEN "pdf_txt"
    ELSE IF input_format \in {DOCX, RTF} THEN "docx_txt"
    ELSE "txt_nothing"
  ELSE "unsupported"

\* Variant of VerifyOutput: only the existence of the path is checked.
VerifyOutput_ExistsOnly(f, p) == Exists(f, p)

\* The two checks that follow the conversion: the path exists, and it exists
\* with a size above zero.
VerifyOutput(f, p) ==
  IF ~Exists(f, p) THEN FALSE
  ELSE IF Exists(f, p) /\ f[p].size > 0 THEN TRUE
  ELSE FALSE

\* The file system after the codec of /convert has run with outcome o.
ImageWrite(f, p, o) ==
  CASE o = "ok" -> WriteFile(f, p, 1, "output")
    [] o = "empty" -> WriteFile(f, p, 0, "output")
    [] o = "raise" -> f

\* The file system after the branch of convert_doc has run with outcome o.
DocWrite(f, route, p, stamp, o) ==
  CASE route = "unsupported" -> f
    [] route = "txt_nothing" -> f
    [] route = "odt_pdf" ->
         ( CASE o = "ok" ->
                  RemoveFile(WriteFile(WriteFile(f, TempDocx(stamp), 1, "temp"),
                                       p, 1, "output"), TempDocx(stamp))
             [] o = "empty" ->
                  RemoveFile(WriteFile(WriteFile(f, TempDocx(stamp), 1, "temp"),
                                       p, 0, "output"), TempDocx(stamp))
             [] o = "raise" -> WriteFile(f, TempDocx(stamp), 1, "temp") )
    [] OTHER ->
         ( CASE o = "ok" -> WriteFile(f, p, 1, "output")
             [] o = "empty" -> WriteFile(f, p, 0, "output")
             [] o = "raise" -> f )

\* Whether the branch raised before the verification is reached.
DocRaised(route, o) ==
  CASE route = "unsupported" -> TRUE
    [] route = "txt_nothing" -> FALSE
    [] OTHER -> o = "raise"

\* Whether the branch writes into temp_documents.
DocWrites(route, o) ==
  CASE route = "unsupported" -> FALSE
    [] route = "txt_nothing" -> FALSE
    [] route = "odt_pdf" -> TRUE
    [] OTHER -> o # "raise"

\* asyncio.wait_for starts the conversion coroutine.  The coroutine contains
\* no await: from here until it returns it holds the event loop.  The document
\* path and the HEIF branch first write the upload under its declared name;
\* the document path then takes its timestamp.  h: the library call that
\* follows never returns.
ConvertBegin(s, fn, h) ==
  /\ running = Free
  /\ req[s].pc = "dispatch"
  /\ LET r == req[s]
         staged == r.endpoint = "document" \/ upper(r.convert_to) = HEIF
         input_path == IF r.endpoint = "document"
                         THEN join(TEMP_DOC_DIR, fn)
                         ELSE join(TEMP_IMAGE_DIR, fn)
     IN /\ fs' = IF staged THEN WriteFile(fs, input_path, r.size, "input") ELSE fs
        /\ req' = [req EXCEPT ![s] =
             [@ EXCEPT !.pc = "converting", !.hangs = h, !.filename = fn,
                       !.wrote = staged,
                       !.stamp = IF r.endpoint = "document"
                                   THEN strftime(now) ELSE <<>>]]
  /\ running' = Holder(s)
  /\ UNCHANGED <<now, nticks, limiter, burst, testResp, cleanup, external,
                 budget>>

\* The conversion coroutine runs to its end with codec outcome o: the output
\* is written, verified, and wait_for hands the result (or the
\* HTTPException(500)) to the handler, which responds.  A coroutine that
\* finished is never timed out, however long it ran.
ConvertEnd(s, o) ==
  /\ running = Holder(s)
  /\ req[s].pc = "converting"
  /\ ~req[s].hangs
  /\ LET r == req[s]
         isDoc == r.endpoint = "document"
         route == Route(InputFormat(r.filename), r.convert_to)
         path == IF isDoc THEN DocOutPath(r.filename, r.convert_to, r.stamp)
                          ELSE ImageOutPath(r.filename, r.convert_to, now)
         fs1 == IF isDoc THEN DocWrite(fs, route, path, r.stamp, o)
                         ELSE ImageWrite(fs, path, o)
         raised == IF isDoc THEN DocRaised(route, o) ELSE o = "raise"
         written == IF isDoc THEN DocWrites(route, o) ELSE o # "raise"
         ok == ~raised /\ VerifyOutput(fs1, path)
     IN /\ fs' = fs1
        /\ req' = [req EXCEPT ![s] =
             [@ EXCEPT !.pc = "done",
                       !.status = IF ok THEN 200 ELSE 500,
                       !.out = IF ok THEN path ELSE <<>>,
                       !.wrote = @ \/ written]]
  /\ running' = Free
  /\ UNCHANGED <<now, nticks, limiter, burst, testResp, cleanup, external,
                 budget>>

(***************************************************************************)
(* periodic_cleanup.                                                       *)
(***************************************************************************)
\* now - file_creation_time > DELETE_IMG_AFTER_SECONDS
Expired(scanNow, ctime) == scanNow - ctime > DELETE_IMG_AFTER_SECONDS

\* The task wakes up (at startup, or when its sleep is over), reads the clock
\* and lists temp_images.  The loop over the listing contains no await.
CleanupBegin ==
  /\ running = Free
  /\ cleanup.pc = "sleeping"
  /\ now >= cleanup.wakeAt
  /\ cleanup' = [cleanup EXCEPT !.pc = "scanning", !.scanNow = now,
                                !.pending = listdir(fs, TEMP_IMAGE_DIR),
                                !.failed = {}, !.deleted = {}]
  /\ running' = Cleaner
  /\ UNCHANGED <<now, nticks, req, fs, limiter, burst, testResp, external,
                 budget>>

\* Variant of CleanupStep: os.remove is not inside try/except, so a failed
\* delete ends the task as a failed getctime does.
CleanupStep_Unguarded(fname, fate) ==
  /\ running = Cleaner
  /\ cleanup.pc = "scanning"
  /\ fname \in cleanup.pending
  /\ fate # "none" => external < MaxExternal
  /\ LET file_path == join(TEMP_IMAGE_DIR, fname)
         present == Exists(fs, file_path)
         old == present /\ Expired(cleanup.scanNow, fs[file_path].ctime)
         rest == cleanup.pending \ {fname}
         gone == fate \in {"gone_before_isfile", "gone_before_getctime",
                           "gone_before_remove"}
         raises == present /\ (fate = "gone_before_getctime"
                               \/ (old /\ fate \in {"gone_before_remove",
                                                    "remove_denied"}))
     IN /\ fs' = IF gone \/ (old /\ fate = "none")
                   THEN RemoveFile(fs, file_path) ELSE fs
        /\ cleanup' = IF raises
                        THEN [cleanup EXCEPT !.pc = "dead", !.pending = {},
                                !.failed =
                                  IF fate = "gone_before_getctime"
                                    THEN @ ELSE @ \cup {fname}]
                        ELSE [cleanup EXCEPT !.pending = rest,
                                !.deleted = IF old /\ fate = "none"
                                              THEN @ \cup {fname} ELSE @]
        /\ running' = IF raises THEN Free ELSE running
  /\ external' = IF fate = "none" THEN external ELSE external + 1
  /\ UNCHANGED <<now, nticks, req, limiter, burst, testResp, budget>>

\* One iteration of the for loop, on the entry named fname: isfile, getctime,
\* the age test, and os.remove inside try/except.  Only the os.remove is
\* guarded: a getctime on a file that has vanished ends the task.  A failed
\* os.remove is logged and the loop goes on.
CleanupStep(fname, fate) ==
  /\ running = Cleaner
  /\ cleanup.pc = "scanning"
  /\ fname \in cleanup.pending
  /\ fate # "none" => external < MaxExternal
  /\ LET file_path == join(TEMP_IMAGE_DIR, fname)
         present == Exists(fs, file_path)
         old == present /\ Expired(cleanup.scanNow, fs[file_path].ctime)
         rest == cleanup.pending \ {fname}
         gone == fate \in {"gone_before_isfile", "gone_before_getctime",
                           "gone_before_remove"}
         crashes == present /\ fate = "gone_before_getctime"
         caught == old /\ fate \in {"gone_before_remove", "remove_denied"}
     IN /\ fs' = IF gone \/ (old /\ fate = "none")
                   THEN RemoveFile(fs, file_path) ELSE fs
        /\ cleanup' = IF crashes
                        THEN [cleanup EXCEPT !.pc = "dead", !.pending = {}]
                        ELSE [cleanup EXCEPT !.pending = rest,
                                !.failed = IF caught THEN @ \cup {fname} ELSE @,
                                !.deleted = IF old /\ fate = "none"
                                              THEN @ \cup {fname} ELSE @]
        /\ running' = IF crashes THEN Free ELSE running
  /\ external' = IF fate = "none" THEN external ELSE external + 1
  /\ UNCHANGED <<now, nticks, req, limiter, burst, testResp, budget>>

\* The listing is exhausted: await asyncio.sleep(DELETE_IMG_AFTER_SECONDS).
CleanupEnd ==
  /\ running = Cleaner
  /\ cleanup.pc = "scanning"
  /\ cleanup.pending = {}
  /\ cleanup' = [cleanup EXCEPT !.pc = "sleeping",
                                !.wakeAt = now + DELETE_IMG_AFTER_SECONDS]
  /\ running' = Free
  /\ UNCHANGED <<now, nticks, req, fs, limiter, burst, testResp, external,
                 budget>>

(***************************************************************************)
(* The specification: every action, on every input.                        *)
(***************************************************************************)
Next ==
  \/ \E c \in Clients : Test(c)
  \/ \E s \in Slots, e \in Endpoints, c \in Clients : Arrive(s, e, c)
  \/ \E s \in Slots, sz \in Sizes, tok \in Tokens : Validate(s, sz, tok)
  \/ \E s \in Slots, fn \in FileNames, h \in BOOLEAN : ConvertBegin(s, fn, h)
  \/ \E s \in Slots, o \in Outcomes : ConvertEnd(s, o)
  \/ \E s \in Slots : Recycle(s)
  \/ \E d \in TickSteps : Tick(d)
  \/ CleanupBegin
  \/ \E fname \in cleanup.pending, fate \in Fates : CleanupStep(fname, fate)
  \/ CleanupEnd

Spec == Init /\ [][Next]_vars

(***************************************************************************)
(* SpecInstant: the two conversion handlers and the first run of the       *)
(* cleanup task, for requests that all arrive within one second of the     *)
(* clock, with no interference from other processes.                       *)
(***************************************************************************)
NextInstant ==
  \/ \E s \in Slots, e \in Endpoints, c \in Clients : Arrive(s, e, c)
  \/ \E s \in Slots, sz \in Sizes, tok \in Tokens : Validate(s, sz, tok)
  \/ \E s \in Slots, fn \in FileNames, h \in BOOLEAN : ConvertBegin(s, fn, h)
  \/ \E s \in Slots, o \in Outcomes : ConvertEnd(s, o)
  \/ \E s \in Slots : Recycle(s)
  \/ CleanupBegin
  \/ \E fname \in cleanup.pending : CleanupStep(fname, "none")
  \/ CleanupEnd

SpecInstant == Init /\ [][NextInstant]_vars

(***************************************************************************)
(* SpecClean: requests that arrive one after another on slot 1, the clock, *)
(* and the cleanup task with the interference of the host.                 *)
(***************************************************************************)
NextClean ==
  \/ \E e \in Endpoints, c \in Clients : Arrive(1, e, c)
  \/ \E tok \in {HEIF, TXT} : Validate(1, MAX_FILE_SIZE, tok)
  \/ \E h \in BOOLEAN : ConvertBegin(1, <<"a",".","d","o","c","x">>, h)
  \/ \E o \in Outcomes : ConvertEnd(1, o)
  \/ Recycle(1)
  \/ \E d \in TickSteps : Tick(d)
  \/ CleanupBegin
  \/ \E fname \in cleanup.pending, fate \in Fates : CleanupStep(fname, fate)
  \/ CleanupEnd

SpecClean == Init /\ [][NextClean]_vars

(***************************************************************************)
(* SpecReap: image requests that arrive one after another on slot 1 and    *)
(* whose codec writes its output or raises, the clock in steps of the      *)
(* retention period, and the cleanup task with the interference of the     *)
(* host.  The cleanup task reads the ctime of a file only, not its size.   *)
(***************************************************************************)
NextReap ==
  \/ \E c \in Clients : Arrive(1, "convert", c)
  \/ \E tok \in {HEIF, <<"p","n","g">>} : Validate(1, MAX_FILE_SIZE, tok)
  \/ ConvertBegin(1, <<"a",".","d","o","c","x">>, FALSE)
  \/ \E o \in {"ok", "raise"} : ConvertEnd(1, o)
  \/ Recycle(1)
  \/ Tick(DELETE_IMG_AFTER_SECONDS)
  \/ CleanupBegin
  \/ \E fname \in cleanup.pending, fate \in Fates : CleanupStep(fname, fate)
  \/ CleanupEnd

SpecReap == Init /\ [][NextReap]_vars

(***************************************************************************)
(* SpecBurst: one client that sends a burst of requests, each of them too  *)
(* large to be converted, and the clock in steps of the limiter's window.  *)
(***************************************************************************)
InitBurst ==
  /\ now = 0
  /\ nticks = 0
  /\ req = [s \in Slots |-> IdleReq]
  /\ fs = << >>
  /\ limiter = [e \in Limited |-> [c \in Clients |-> [count |-> 0, expiry |-> 0]]]
  /\ burst = [e \in Endpoints \cup {"test"} |-> [c \in Clients |-> 0]]
  /\ testResp = 0
  /\ running = Free
  /\ cleanup = [ pc |-> "sleeping", wakeAt |-> 0, scanNow |-> 0,
                 pending |-> {}, failed |-> {}, deleted |-> {} ]
  /\ external = 0
  /\ budget = TestQuota + MaxRequests

NextBurst ==
  \/ \E c \in Clients : Test(c)
  \/ \E e \in Endpoints, c \in Clients : Arrive(1, e, c)
  \/ \E tok \in {<<"p","n","g">>} : Validate(1, 2 * MAX_FILE_SIZE, tok)
  \/ Recycle(1)
  \/ Tick(WindowSeconds)

SpecBurst == InitBurst /\ [][NextBurst]_vars

(***************************************************************************)
(* SpecFormats: image requests that arrive one after another on slot 1,    *)
(* with every token of the image allow-list as target, in upper case and,  *)
(* for some, in lower or mixed case.                                       *)
(***************************************************************************)
ImageTokens ==
  ALLOWED_FORMATS \cup { <<"j","p","g">>, <<"J","p","e","g">>, <<"T","i","f">>,
                         <<"t","i","f","f">>, <<"h","e","i","f">> }

\* media_type of the FileResponse of a successful request.
MediaType(e, tok) ==
  IF e = "convert"
    THEN <<"i","m","a","g","e","/">> \o lower(tok)
    ELSE <<"a","p","p","l","i","c","a","t","i","o","n","/">> \o lower(tok)

NextFormats ==
  \/ \E c \in Clients : Arrive(1, "convert", c)
  \/ \E tok \in ImageTokens : Validate(1, MAX_FILE_SIZE, tok)
  \/ ConvertBegin(1, <<"a",".","p","n","g">>, FALSE)
  \/ \E o \in Outcomes : ConvertEnd(1, o)
  \/ Recycle(1)

SpecFormats == Init /\ [][NextFormats]_vars

(***************************************************************************)
(* SpecRoutes: concurrent document requests for DOCX and PDF, with uploads *)
(* named temp.pdf and a.odt, all within one second of the clock.           *)
(***************************************************************************)
NextRoutes ==
  \/ \E s \in Slots, c \in Clients : Arrive(s, "document", c)
  \/ \E s \in Slots, tok \in {DOCX, PDF} : Validate(s, MAX_DOC_FILE_SIZE, tok)
  \/ \E s \in Slots, fn \in { <<"t","e","m","p",".","p","d","f">>,
                              <<"a",".","o","d","t">> } :
       ConvertBegin(s, fn, FALSE)
  \/ \E s \in Slots, o \in Outcomes : ConvertEnd(s, o)
  \/ \E s \in Slots : Recycle(s)

SpecRoutes == Init /\ [][NextRoutes]_vars

(***************************************************************************)
(* Properties.                                                             *)
(***************************************************************************)
Done(s) == req[s].pc = "done"
Succeeded(s) == Done(s) /\ req[s].status = 200

\* The output path the conversion of slot s writes when it ends now.
OutPathOf(s) ==
  IF req[s].endpoint = "document"
    THEN DocOutPath(req[s].filename, req[s].convert_to, req[s].stamp)
    ELSE ImageOutPath(req[s].filename, req[s].convert_to, now)

\* C1: two conversion requests that carry the same declared filename and the
\* same target format never end with the same output artifact path.
C1_DistinctArtifactPaths ==
  \A s1, s2 \in Slots :
    ( /\ s1 # s2
      /\ Succeeded(s1) /\ Succeeded(s2)
      /\ req[s1].endpoint = req[s2].endpoint
      /\ req[s1].filename = req[s2].filename
      /\ req[s1].convert_to = req[s2].convert_to )
    => req[s1].out # req[s2].out

\* C3: while the conversion of one request is running, every other request
\* that is ready to continue, and the cleanup task when it is due, can take
\* its next step.
C3_NonBlockingProgress ==
  \A s \in Slots :
    req[s].pc = "converting" =>
      /\ \A q \in Slots \ {s} :
           /\ req[q].pc = "reading" =>
                ENABLED (\E sz \in Sizes, tok \in Tokens : Validate(q, sz, tok))
           /\ req[q].pc = "dispatch" =>
                ENABLED (\E fn \in FileNames, h \in BOOLEAN : ConvertBegin(q, fn, h))
      /\ (cleanup.pc = "sleeping" /\ now >= cleanup.wakeAt) => ENABLED CleanupBegin

\* C5: on both conversion endpoints a payload of exactly 10 * 1024 * 1024
\* bytes passes the size check, a larger one is answered 413, and 413 is the
\* status the client receives.
C5_SizeBoundary ==
  \A s \in Slots :
    req[s].size > 0 =>
      /\ req[s].size <= 10 * 1024 * 1024 => req[s].status # 413
      /\ req[s].size >= 10 * 1024 * 1024 + 1 => Done(s) /\ req[s].status = 413

\* C5 witness: a document request of exactly the ceiling went on to dispatch
\* while an image request of one byte more was answered 413.
C5_Witness ==
  \E s1, s2 \in Slots :
    /\ req[s1].endpoint = "document" /\ req[s1].size = MAX_DOC_FILE_SIZE
    /\ req[s1].pc = "dispatch"
    /\ req[s2].endpoint = "convert" /\ req[s2].size = MAX_FILE_SIZE + 1
    /\ Done(s2) /\ req[s2].status = 413

\* The allow-list of the endpoint a request was sent to.
AllowList(s) ==
  IF req[s].endpoint = "convert" THEN ALLOWED_FORMATS ELSE ALLOWED_DOC_FORMATS

\* C6: a request whose token, upper-cased, is not exactly a member of the
\* allow-list is answered 400 (and only such a request is), and a request
\* answered 400 or 413 has written no file.
C6_RejectionWritesNothing ==
  \A s \in Slots :
    /\ (Done(s) /\ req[s].status \in {400, 413}) => ~req[s].wrote
    /\ (req[s].size > 0 /\ req[s].status # 413) =>
         (upper(req[s].convert_to) \notin AllowList(s)
            <=> (Done(s) /\ req[s].status = 400))

\* C6 witness: a token that is a proper prefix of an allowed one was answered
\* 400 while files of another request are in the store.
C6_Witness ==
  \E s \in Slots :
    /\ Done(s) /\ req[s].status = 400 /\ ~req[s].wrote
    /\ req[s].convert_to = <<"P","N">>
    /\ req[s].endpoint = "convert"
    /\ DOMAIN fs # {}

\* C9: a conversion ends with 200 only if, in the state it ends in, its
\* output path holds a file of size above zero; when the path is missing or
\* holds a zero-byte file it ends with 500.
C9_WriteVerified ==
  [][ \A s \in Slots :
        (req[s].pc = "converting" /\ req'[s].pc = "done") =>
          /\ req'[s].status \in {200, 500}
          /\ req'[s].status = 200 =>
               /\ req'[s].out = OutPathOf(s)
               /\ req'[s].out \in DOMAIN fs'
               /\ fs'[req'[s].out].size > 0
          /\ (OutPathOf(s) \notin DOMAIN fs' \/ fs'[OutPathOf(s)].size = 0)
               => req'[s].status = 500 ]_vars

\* C9 witness: one request was answered 200 and its artifact is non-empty,
\* another was answered 500 and left a zero-byte file in the store.
C9_Witness ==
  \E s1, s2 \in Slots :
    /\ Succeeded(s1) /\ req[s1].out \in DOMAIN fs /\ fs[req[s1].out].size > 0
    /\ Done(s2) /\ req[s2].status = 500
    /\ \E p \in DOMAIN fs : fs[p].size = 0 /\ fs[p].kind = "output"

\* The routes of the document table, as <<source extension, target>>.
RouteTable ==
  { <<DOCX, PDF>>, <<PDF, DOCX>>, <<ODT, DOCX>>, <<ODT, PDF>>, <<ODT, TXT>>,
    <<PDF, TXT>>, <<DOCX, TXT>>, <<RTF, TXT>> }

\* C10: a document request ends with 200 only if its (source extension,
\* target) pair is in the route table; a pair outside the table ends with 500.
C10_RouteTableIsHardPolicy ==
  \A s \in Slots :
    (Done(s) /\ req[s].endpoint = "document" /\ req[s].status \in {200, 500}) =>
      ( <<InputFormat(req[s].filename), upper(req[s].convert_to)>> \notin RouteTable
          => req[s].status = 500 )


\* C2: a request whose converter ran longer than TIMEOUT_IMG seconds ends
\* with the Timeout outcome, status 504, and never with 200.
C2_LongConversionTimesOut ==
  \A s \in Slots :
    (Done(s) /\ req[s].elapsed > TIMEOUT_IMG) => req[s].status = 504

\* C4: on each of /convert, /convert-document and /test, the requests of one
\* client admitted within one window never exceed the quota of the endpoint.
C4_QuotaOnEveryEndpoint ==
  \A e \in DOMAIN burst : \A c \in Clients : burst[e][c] <= Quota(e)

\* The entries of temp_images whose os.remove failed in the current cycle.
FailedPaths == { join(TEMP_IMAGE_DIR, n) : n \in cleanup.failed }

\* C7: once a cleanup cycle has run to its end, no artifact of a successful
\* conversion, image or document, is left that was older than the retention
\* window when the cycle started (unless its deletion failed).
C7_ExpiredArtifactsReaped ==
  cleanup.pc = "sleeping" =>
    \A s \in Slots :
      (Succeeded(s) /\ Exists(fs, req[s].out) /\ req[s].out \notin FailedPaths)
        => ~Expired(cleanup.scanNow, fs[req[s].out].ctime)

\* Every entry of temp_images that is expired with respect to the start of
\* the last completed cycle is one whose os.remove failed in that cycle.
ExpiredImagesAreFailed ==
  cleanup.pc = "sleeping" =>
    \A n \in listdir(fs, TEMP_IMAGE_DIR) :
      Expired(cleanup.scanNow, fs[join(TEMP_IMAGE_DIR, n)].ctime)
        => n \in cleanup.failed

\* A step of the cleanup task in which an os.remove failed.
DeleteFailed == cleanup'.failed # cleanup.failed /\ cleanup'.failed # {}

C11_FailedRequestLeavesNoArtifact ==
  \A s \in Slots :
    (Done(s) /\ req[s].status = 500 /\ req[s].wrote)
      => OutPathOf(s) \notin DOMAIN fs

\* The canonical format of an allowed image token: JPG and JPEG are one
\* format, TIF and TIFF are one format.
CanonicalFormat(tok) ==
  CASE upper(tok) \in {<<"J","P","G">>, <<"J","P","E","G">>} -> <<"J","P","E","G">>
    [] upper(tok) \in {<<"T","I","F">>, <<"T","I","F","F">>} -> <<"T","I","F","F">>
    [] OTHER -> upper(tok)

\* Whether the sequence p ends with the sequence suf.
HasSuffix(p, suf) ==
  /\ Len(p) >= Len(suf)
  /\ SubSeq(p, Len(p) - Len(suf) + 1, Len(p)) = suf

\* C12: a successful /convert response for an alias token (JPG, JPEG, TIF,
\* TIFF in any letter case) carries the MIME type of the canonical format,
\* image/jpeg or image/tiff, and its artifact the canonical extension.
C12_AliasContentType ==
  \A s \in Slots :
    ( /\ Succeeded(s) /\ req[s].endpoint = "convert"
      /\ CanonicalFormat(req[s].convert_to)
           \in {<<"J","P","E","G">>, <<"T","I","F","F">>} )
    => /\ MediaType("convert", req[s].convert_to)
            = <<"i","m","a","g","e","/">> \o lower(CanonicalFormat(req[s].convert_to))
       /\ HasSuffix(req[s].out,
                    <<".">> \o lower(CanonicalFormat(req[s].convert_to)))

\* C13: for every token of the image allow-list, in any letter case, a
\* /convert request whose codec reads the input and writes a non-empty
\* output ends with 200 and an artifact that exists, is not empty, is saved
\* in the canonical format of the token and carries its extension; the HEIF
\* branch, which stages the input, is taken for HEIF and for no other token.
C13_AllowedTargetSucceeds ==
  [][ \A s \in Slots :
        (req[s].endpoint = "convert" /\ ConvertEnd(s, "ok")) =>
          /\ upper(req[s].convert_to) \in ALLOWED_FORMATS
          /\ req'[s].status = 200
          /\ req'[s].out \in DOMAIN fs' /\ fs'[req'[s].out].size > 0
          /\ HasSuffix(req'[s].out,
                       <<".">> \o lower(CanonicalFormat(req[s].convert_to)))
          /\ (upper(req[s].convert_to) # HEIF =>
                convert_img_to_corrected(req[s].convert_to)
                  = CanonicalFormat(req[s].convert_to))
          /\ (req[s].wrote <=> upper(req[s].convert_to) = HEIF) ]_vars

\* C13 witness: a request for an alias token has ended with 200 and an
\* artifact with the canonical extension, while no input is staged.
C13_Witness ==
  \E s \in Slots :
    /\ Succeeded(s) /\ req[s].endpoint = "convert"
    /\ upper(req[s].convert_to) = <<"T","I","F">>
    /\ HasSuffix(req[s].out, <<".","t","i","f","f">>)
    /\ req[s].out \in DOMAIN fs /\ fs[req[s].out].size > 0
    /\ ~Exists(fs, join(TEMP_IMAGE_DIR, req[s].filename))

\* C14: the cleanup task removes a file only if it is older, at the start of
\* the scan, than the retention window, and nothing but the cleanup task
\* removes the artifact of a successful conversion.
C14_OnlyCleanupDeletesOldArtifacts ==
  [][ /\ \A p \in (DOMAIN fs) \ (DOMAIN fs') :
           (running = Cleaner /\ external' = external)
             => Expired(cleanup.scanNow, fs[p].ctime)
      /\ \A s \in Slots :
           (Succeeded(s) /\ req[s].out \in DOMAIN fs /\ req[s].out \notin DOMAIN fs')
             => (running = Cleaner \/ external' # external) ]_vars

\* The path under which ConvertBegin stages the upload of slot s, named fn.
StagedPath(s, fn) ==
  IF req[s].endpoint = "document" THEN join(TEMP_DOC_DIR, fn)
                                  ELSE join(TEMP_IMAGE_DIR, fn)

\* C15: no request step writes to a path that already holds a file: the
\* staging write of the upload goes to a path that is free, and so does the
\* write of the output.
C15_NoWriteToExistingPath ==
  [][ \A s \in Slots :
        /\ (req[s].pc = "dispatch" /\ req'[s].pc = "converting" /\ req'[s].wrote)
             => ~Exists(fs, StagedPath(s, req'[s].filename))
        /\ (req[s].pc = "converting" /\ req'[s].pc = "done" /\ req'[s].status = 200)
             => ~Exists(fs, req'[s].out) ]_vars

C17_SchedulerNeverStops == cleanup.pc \in {"sleeping", "scanning"}

\* C18: a request is checked against the rate limit first, then against the
\* size ceiling, then against the allow-list, and is answered with the error
\* of the first check it fails: 429 when its client has used up the quota of
\* the endpoint, whatever its payload; else 413 when the payload is too
\* large, whatever its token; else 400.  A conversion starts only for a
\* request that has passed the three checks.
C18_StageOrder ==
  [][ \A s \in Slots :
        /\ (req[s].pc = "idle" /\ req'[s].pc # "idle"
              /\ burst[req'[s].endpoint][req'[s].client] >= Quota(req'[s].endpoint))
             => (req'[s].pc = "done" /\ req'[s].status = 429)
        /\ (req[s].pc = "reading" /\ req'[s].pc # "reading"
              /\ req'[s].size > 10 * 1024 * 1024)
             => (req'[s].pc = "done" /\ req'[s].status = 413)
        /\ (req[s].pc = "reading" /\ req'[s].pc # "reading"
              /\ req'[s].size <= 10 * 1024 * 1024
              /\ upper(req'[s].convert_to) \notin AllowList(s))
             => (req'[s].pc = "done" /\ req'[s].status = 400)
        /\ req'[s].pc = "converting" =>
             /\ req[s].pc \in {"dispatch", "converting"}
             /\ req[s].status = 0
             /\ req[s].size <= 10 * 1024 * 1024
             /\ upper(req[s].convert_to) \in AllowList(s) ]_vars

\* The request of slot s asks for a document route outside the route table.
UnsupportedRoute(s) ==
  /\ req[s].endpoint = "document"
  /\ <<InputFormat(req[s].filename), upper(req[s].convert_to)>> \notin RouteTable

\* C19: a conversion that fails (unsupported route, unreadable input or
\* library error, missing or empty output) ends its request with 500 and
\* never 200, leaves the event loop free, and changes neither another
\* request nor the cleanup task.
C19_FailureContained ==
  [][ \A s \in Slots :
        (req[s].pc = "converting" /\ req'[s].pc = "done") =>
          /\ ( \/ UnsupportedRoute(s)
               \/ (ConvertEnd(s, "raise") /\ ~UnsupportedRoute(s))
               \/ OutPathOf(s) \notin DOMAIN fs'
               \/ fs'[OutPathOf(s)].size = 0 )
             => req'[s].status = 500
          /\ req'[s].status \in {200, 500}
          /\ running' = Free
          /\ cleanup' = cleanup
          /\ \A q \in Slots \ {s} : req'[q] = req[q] ]_vars

\* C20: once a scan is over, no file of temp_images is left that was older
\* than the retention window when the scan started, so that a file outlives
\* at most the one scan that found it young (a file whose delete failed is
\* left to the next scan).
C20_BoundedImageLifetime ==
  cleanup.pc # "scanning" =>
    \A n \in listdir(fs, TEMP_IMAGE_DIR) \ cleanup.failed :
      ~Expired(cleanup.scanNow, fs[join(TEMP_IMAGE_DIR, n)].ctime)

====
